---- MODULE Spec2Model ----
(***************************************************************************)
(* Model of the retrieval core of MULTI-MODEL-RAG-SYSTEM:                  *)
(*   embedding/multimodal_vector_store.py  (MultiModalVectorStore)         *)
(*   embedding/multimodal_embedder.py      (MultiModalEmbedder.embed_text) *)
(*   generation/qa_engine.py               (QAEngine)                      *)
(*   chunking/semantic_chunker.py          (SemanticChunker.chunk_text)    *)
(*                                                                         *)
(* Strings are sequences of one-character strings.  An embedding vector is *)
(* abstracted to its length and one coordinate (pos); the squared L2       *)
(* distance of two vectors is the square of the coordinate difference.     *)
(* The two persisted artifacts of the collection (<name>.index and         *)
(* <name>.pkl) are modelled as two files that are absent, corrupt or hold  *)
(* the value that was written.                                             *)
(***************************************************************************)
EXTENDS Integers, Sequences, FiniteSets, TLC

VARIABLES ids, documents, metadatas, index, indexFile, pklFile, ret, failures,
          threads

vars == <<ids, documents, metadatas, index, indexFile, pklFile, ret, failures,
          threads>>

(* ---------------------------------------------------------------- bounds *)
MaxDocs == 2
MaxBatch == 2
MaxTopK == 2
MaxFailures == 1
MaxStored == 3
MaxText == 7
MaxChunkSize == 2
MaxParts == 11

(* ------------------------------------------------------ program constants *)
dimension == 384
OtherDim == dimension + 128

(* ------------------------------------------------------- generic helpers *)
Range(s) == {s[i] : i \in 1..Len(s)}

Min(a, b) == IF a <= b THEN a ELSE b

Take(s, n) == SubSeq(s, 1, Min(n, Len(s)))

(* ------------------------------------------------------------ test data *)
(* "a b. c"  "B. a"  and the OCR text "b" *)
TextAB == <<"a", " ", "b", ".", " ", "c">>
TextBA == <<"B", ".", " ", "a">>
TextOcr == <<"b">>
NoText == <<>>

(* queries: "a", "z B." and "Z" (a token of no content) *)
QueryA == <<"a">>
QueryZB == <<"z", " ", "B", ".">>
QueryZ == <<"Z">>

QueryPool == {QueryA, QueryZB, QueryZ}

(* chunk dictionaries handed to add_documents; keys lists the keys present *)
Chunk(t, ks, c, o, p) ==
    [type |-> t, keys |-> ks, content |-> c, ocr_text |-> o, page |-> p]

ChunkPool ==
    { Chunk("text", {"content", "page"}, TextAB, NoText, 1),
      Chunk("table", {"content"}, TextBA, NoText, 0),
      Chunk("image", {"content", "ocr_text", "page"}, TextOcr, TextOcr, 2),
      Chunk("image", {"ocr_text", "page"}, NoText, TextOcr, 2),
      Chunk("audio", {"content", "page"}, TextAB, NoText, 1) }

EmbedOutcomes == {"ok", "baddim", "raise"}

(* ------------------------------------------------------------- embedder *)
(* The coordinate the model assigns to a text: deterministic per text.     *)
CountA(s) == Cardinality({i \in 1..Len(s) : s[i] \in {"a", "A"}})

Pos(text) == (Len(text) % 4) + CountA(text)

(* MultiModalEmbedder.embed_text: the model's encode() either returns a    *)
(* vector (of the store dimension or not) or raises.                       *)
embed_text(text, outcome) ==
    [raised |-> outcome = "raise",
     vec |-> [len |-> IF outcome = "baddim" THEN OtherDim ELSE dimension,
              pos |-> Pos(text)]]

(* ---------------------------------------------------------------- files *)
Absent == [st |-> "absent", data |-> <<>>]
Corrupt == [st |-> "corrupt", data |-> <<>>]
File(d) == [st |-> "ok", data |-> <<d>>]

Exists(f) == f.st # "absent"

(* uuid.uuid4(): a token different from every id in use *)
uuid4(used) == CHOOSE n \in 1..(Cardinality(used) + 1) : n \notin used

(* the ids a persisted metadata file holds *)
FileIds(pkl) == IF pkl.st = "ok" THEN Range(pkl.data[1].ids) ELSE {}

(* ------------------------------------------------------- add_documents *)
NoRet == [op |-> "init", raised |-> FALSE, args |-> <<>>, out |-> <<>>]

(* no add_documents and no query call in progress *)
NoThreads == [ins |-> [pc |-> "idle"], qry |-> [pc |-> "idle"]]

Metadata(chunk) ==
    [type |-> chunk.type,
     page |-> IF "page" \in chunk.keys THEN chunk.page ELSE 0,
     source |-> "unknown"]

(* One iteration of the for loop of add_documents on the accumulator      *)
(* acc = [ids, documents, metadatas, embeddings, nbad, raised]; stored is *)
(* the set of ids persisted so far.                                       *)
(* An insertion that overwrites the last stored content instead of       *)
(* appending.                                                             *)
AddOne_Overwrite(acc, chunk, outcome, stored) ==
    IF chunk.type \notin {"text", "table"} \/ "content" \notin chunk.keys
    THEN acc
    ELSE IF acc.documents = <<>>
    THEN [acc EXCEPT !.embeddings = Append(@, embed_text(chunk.content, "ok").vec),
                     !.ids = Append(@, uuid4(Range(acc.ids) \cup stored)),
                     !.documents = Append(@, chunk.content),
                     !.metadatas = Append(@, Metadata(chunk))]
    ELSE [acc EXCEPT !.documents[Len(acc.documents)] = chunk.content]

AddOne(acc, chunk, outcome, stored) ==
    LET chunk_id == uuid4(Range(acc.ids) \cup stored)
        text == IF chunk.type = "image"
                THEN (IF "ocr_text" \in chunk.keys THEN chunk.ocr_text ELSE NoText)
                ELSE chunk.content
        e == embed_text(text, outcome)
    IN  IF chunk.type \notin {"text", "table", "image"}
        THEN acc
        ELSE IF chunk.type \in {"text", "table"} /\ "content" \notin chunk.keys
        THEN [acc EXCEPT !.raised = TRUE]
        ELSE IF e.raised
        THEN [acc EXCEPT !.raised = TRUE]
        ELSE IF "content" \notin chunk.keys
        THEN [acc EXCEPT !.embeddings = Append(@, e.vec),
                         !.ids = Append(@, chunk_id),
                         !.nbad = @ + (IF e.vec.len # dimension THEN 1 ELSE 0),
                         !.raised = TRUE]
        ELSE [acc EXCEPT !.embeddings = Append(@, e.vec),
                         !.ids = Append(@, chunk_id),
                         !.documents = Append(@, chunk.content),
                         !.metadatas = Append(@, Metadata(chunk)),
                         !.nbad = @ + (IF e.vec.len # dimension THEN 1 ELSE 0)]

RECURSIVE AddLoop(_, _, _, _, _)
AddLoop(acc, chunks, outcomes, i, stored) ==
    IF acc.raised \/ i > Len(chunks)
    THEN acc
    ELSE AddLoop(AddOne(acc, chunks[i], outcomes[i], stored),
                 chunks, outcomes, i + 1, stored)

(* np.array(embeddings).astype('float32') followed by index.add: raises    *)
(* when the rows differ in length or their length is not the index's d,    *)
(* or when FAISS itself fails.                                             *)
IndexAddRaises(embeddings, addFail) ==
    addFail \/ \E i \in 1..Len(embeddings) : embeddings[i].len # dimension

(* --------------------------------------------------------- _save_index *)
SaveFaults == {"none", "index_fail", "index_trunc", "pkl_open", "pkl_dump"}

PklData(docs, metas, idseq) ==
    [documents |-> docs, metadatas |-> metas, ids |-> idseq]

(* A save that forgets the ids. *)
SavePklFile_NoIds(docs, metas, idseq, fault) ==
    CASE fault \in {"index_fail", "index_trunc", "pkl_open"} -> pklFile
      [] fault = "pkl_dump" -> Corrupt
      [] OTHER -> File(PklData(docs, metas, <<>>))

(* A save that never writes the .index file. *)
SaveIndexFile_Skip(idx, fault) == indexFile

(* The two files after _save_index of the given in-memory state.  The     *)
(* .index file is written first, the .pkl file second; any exception is   *)
(* caught and printed.                                                    *)
SaveIndexFile(idx, fault) ==
    CASE fault = "index_fail" -> indexFile
      [] fault = "index_trunc" -> Corrupt
      [] OTHER -> File(idx)

SavePklFile(docs, metas, idseq, fault) ==
    CASE fault \in {"index_fail", "index_trunc", "pkl_open"} -> pklFile
      [] fault = "pkl_dump" -> Corrupt
      [] OTHER -> File(PklData(docs, metas, idseq))

(* --------------------------------------------------------- _load_index *)
LoadFaults == {"none", "index_read", "pkl_read"}

EmptyMem == [index |-> <<>>, documents |-> <<>>, metadatas |-> <<>>, ids |-> <<>>]

(* The store after __init__ has created the empty index and lists and     *)
(* _load_index has run over the two files.                                *)
LoadIndex(fault) ==
    IF ~(Exists(indexFile) /\ Exists(pklFile))
    THEN EmptyMem
    ELSE IF indexFile.st = "corrupt" \/ fault = "index_read"
    THEN EmptyMem
    ELSE IF pklFile.st = "corrupt" \/ fault = "pkl_read"
    THEN [EmptyMem EXCEPT !.index = indexFile.data[1]]
    ELSE [index |-> indexFile.data[1],
          documents |-> pklFile.data[1].documents,
          metadatas |-> pklFile.data[1].metadatas,
          ids |-> pklFile.data[1].ids]

(* ---------------------------------------------------- string helpers *)
LowerChar(c) ==
    CASE c = "A" -> "a"
      [] c = "B" -> "b"
      [] c = "Z" -> "z"
      [] OTHER -> c

(* str.lower() *)
Lower(s) == [i \in 1..Len(s) |-> LowerChar(s[i])]

IsSpace(c) == c \in {" ", "\n"}

(* str.split(): the maximal runs of non-whitespace characters, in order *)
RECURSIVE SplitWs(_, _, _)
SplitWs(s, i, cur) ==
    LET spaces == {k \in i..Len(s) : IsSpace(s[k])}
        Word(w) == IF w = <<>> THEN <<>> ELSE <<w>>
    IN  IF spaces = {}
        THEN Word(cur \o SubSeq(s, i, Len(s)))
        ELSE LET k == CHOOSE x \in spaces : \A y \in spaces : x <= y
             IN  Word(cur \o SubSeq(s, i, k - 1)) \o SplitWs(s, k + 1, <<>>)

(* set(s.lower().split()) *)
Terms(s) == Range(SplitWs(Lower(s), 1, <<>>))

(* ------------------------------------------------------------ retrieve *)
Dist(q, v) == (q.pos - v.pos) * (q.pos - v.pos)

(* faiss IndexFlatL2.search(q, k): the k stored vectors nearest to q in    *)
(* increasing distance, equal distances in increasing position.           *)
Before(idx, q, j, i) ==
    \/ Dist(q, idx[j]) < Dist(q, idx[i])
    \/ Dist(q, idx[j]) = Dist(q, idx[i]) /\ j < i

Search(idx, q, k) ==
    [r \in 1..k |->
        CHOOSE i \in 1..Len(idx) :
            Cardinality({j \in 1..Len(idx) : Before(idx, q, j, i)}) = r - 1]

(* The formatting loop of retrieve over the positions found: a position   *)
(* beyond documents is skipped; one beyond ids or metadatas raises.       *)
RECURSIVE FormatResults(_, _, _, _)
FormatResults(found, q, r, acc) ==
    IF acc.raised \/ r > Len(found)
    THEN acc
    ELSE LET i == found[r]
         IN  IF i > Len(documents)
             THEN FormatResults(found, q, r + 1, acc)
             ELSE IF i > Len(ids) \/ i > Len(metadatas)
             THEN [acc EXCEPT !.raised = TRUE]
             ELSE FormatResults(found, q, r + 1,
                    [acc EXCEPT !.out = Append(@,
                        [id |-> ids[i], content |-> documents[i],
                         metadata |-> metadatas[i],
                         distance |-> Dist(q, index[i])])])

retrieve(query, top_k, outcome) ==
    IF Len(index) = 0
    THEN [raised |-> FALSE, out |-> <<>>]
    ELSE LET e == embed_text(query, outcome)
         IN  IF e.raised \/ e.vec.len # dimension
             THEN [raised |-> TRUE, out |-> <<>>]
             ELSE FormatResults(Search(index, e.vec, Min(top_k, Len(index))),
                                e.vec, 1, [raised |-> FALSE, out |-> <<>>])

(* -------------------------------------------------------- hybrid_search *)
(* hybrid_score = 0.7 * 1/(1+distance) + 0.3 * overlap/|query_terms| as   *)
(* the fraction num/den (den > 0).                                        *)
HybridScore(query, result) ==
    LET query_terms == Terms(query)
        content_terms == Terms(result.content)
        n == Cardinality(query_terms)
        o == Cardinality(query_terms \cap content_terms)
        d == result.distance
    IN  IF n = 0
        THEN [num |-> 7, den |-> 10 * (1 + d)]
        ELSE [num |-> 7 * n + 3 * o * (1 + d), den |-> 10 * (1 + d) * n]

(* A comparison that ranks the lower score first. *)
Greater_Less(a, b) == a.num * b.den < b.num * a.den

Greater(a, b) == a.num * b.den > b.num * a.den

Same(a, b) == a.num * b.den = b.num * a.den

(* A descending sort that reverses the candidates of equal score. *)
SortByScore_TiesReversed(rs) ==
    LET Ahead(j, i) == \/ Greater(rs[j].hybrid_score, rs[i].hybrid_score)
                       \/ /\ Same(rs[j].hybrid_score, rs[i].hybrid_score)
                          /\ j > i
    IN  [r \in 1..Len(rs) |->
            rs[CHOOSE i \in 1..Len(rs) :
                  Cardinality({j \in 1..Len(rs) : Ahead(j, i)}) = r - 1]]

(* list.sort(key=hybrid_score, reverse=True): stable, descending *)
SortByScore(rs) ==
    LET Ahead(j, i) == \/ Greater(rs[j].hybrid_score, rs[i].hybrid_score)
                       \/ /\ Same(rs[j].hybrid_score, rs[i].hybrid_score)
                          /\ j < i
    IN  [r \in 1..Len(rs) |->
            rs[CHOOSE i \in 1..Len(rs) :
                  Cardinality({j \in 1..Len(rs) : Ahead(j, i)}) = r - 1]]

Scored(query, r) ==
    [id |-> r.id, content |-> r.content, metadata |-> r.metadata,
     distance |-> r.distance, hybrid_score |-> HybridScore(query, r)]

hybrid_search(query, top_k, outcome) ==
    LET vector_results == retrieve(query, top_k * 2, outcome)
    IN  IF vector_results.raised \/ vector_results.out = <<>>
        THEN vector_results
        ELSE [raised |-> FALSE,
              out |-> Take(SortByScore([i \in 1..Len(vector_results.out) |->
                              Scored(query, vector_results.out[i])]), top_k)]

(* ------------------------------------------------------------- QAEngine *)
MaxContext == 800
MaxExcerpt == 300
MaxFragments == 10
MaxRelevant == 3
MaxPreview == 500

NOT_FOUND ==
    <<"I couldn't find any relevant information in the document to answer your question. Please try rephrasing or asking about a different topic.">>

NO_RELEVANT == <<"I couldn't find relevant information to answer your question.">>

GENERATED == <<"message.content[0].text">>

Str(n) ==
    CASE n = 0 -> "0"
      [] n = 1 -> "1"
      [] n = 2 -> "2"
      [] n = 3 -> "3"
      [] n = 4 -> "4"
      [] OTHER -> "n"

(* str.split(sep) for a one-character separator: the pieces between the   *)
(* separators, empty pieces included                                      *)
RECURSIVE SplitOn(_, _, _, _)
SplitOn(s, sep, i, cur) ==
    LET seps == {k \in i..Len(s) : s[k] = sep}
    IN  IF seps = {}
        THEN <<cur \o SubSeq(s, i, Len(s))>>
        ELSE LET k == CHOOSE x \in seps : \A y \in seps : x <= y
             IN  <<cur \o SubSeq(s, i, k - 1)>> \o SplitOn(s, sep, k + 1, <<>>)

(* str.strip() *)
Strip(s) ==
    LET inked == {k \in 1..Len(s) : ~IsSpace(s[k])}
    IN  IF inked = {} THEN <<>>
        ELSE SubSeq(s, CHOOSE x \in inked : \A y \in inked : x <= y,
                       CHOOSE x \in inked : \A y \in inked : x >= y)

(* sep.join(parts) *)
RECURSIVE Join(_, _)
Join(parts, sep) ==
    IF parts = <<>> THEN <<>>
    ELSE IF Len(parts) = 1 THEN parts[1]
    ELSE parts[1] \o sep \o Join(Tail(parts), sep)

Citation(page) == <<"\n", "\n", "(Source: Page ", Str(page), ")">>

(* _build_context *)
ContextBlock(i, doc) ==
    <<"[Document ", Str(i), " - Page ", Str(doc.metadata.page), " - Type: ",
      doc.metadata.type, "]", "\n">> \o Take(doc.content, MaxContext)

_build_context(retrieved_docs) ==
    Join([i \in 1..Len(retrieved_docs) |-> ContextBlock(i, retrieved_docs[i])],
         <<"\n", "\n">>)

(* _extract_sources *)
Flatten(s) == [i \in 1..Len(s) |-> IF s[i] = "\n" THEN " " ELSE s[i]]

_extract_sources(retrieved_docs) ==
    [i \in 1..Len(retrieved_docs) |->
        [type |-> retrieved_docs[i].metadata.type,
         page |-> retrieved_docs[i].metadata.page,
         confidence |-> 1 - retrieved_docs[i].distance,
         content |-> Flatten(Take(retrieved_docs[i].content, MaxExcerpt)
                             \o <<".", ".", ".">>)]]

(* _generate_smart_fallback; retrieved_docs = <<>> stands for None or []  *)
(* A scan that keeps every fragment. *)
Relevant_All(sentences, query_terms, i) ==
    [k \in 1..Len(sentences) |-> Strip(sentences[k])]

RECURSIVE Relevant(_, _, _)
Relevant(sentences, query_terms, i) ==
    IF i > Len(sentences)
    THEN <<>>
    ELSE (IF Terms(sentences[i]) \cap query_terms # {}
          THEN <<Strip(sentences[i])>> ELSE <<>>)
         \o Relevant(sentences, query_terms, i + 1)

_generate_smart_fallback(query, retrieved_docs) ==
    IF retrieved_docs = <<>>
    THEN NO_RELEVANT
    ELSE LET top_doc == retrieved_docs[1]
             page == top_doc.metadata.page
             content == top_doc.content
             sentences == SplitOn(content, ".", 1, <<>>)
             relevant_sentences ==
                 Relevant(Take(sentences, MaxFragments), Terms(query), 1)
         IN  IF relevant_sentences # <<>>
             THEN Strip(Join(Take(relevant_sentences, MaxRelevant), <<".", " ">>))
                  \o <<".">> \o Citation(page)
             ELSE Strip(Take(content, MaxPreview)) \o <<".", ".", ".">>
                  \o Citation(page)

(* _generate_with_anthropic: the API call returns text, or the import or  *)
(* the call raises; both handlers pass None as the retrieved documents.   *)
GenOutcomes == {"ok", "import_error", "api_error"}

_generate_with_anthropic(query, context, outcome) ==
    IF outcome = "ok"
    THEN GENERATED
    ELSE _generate_smart_fallback(query, <<>>)

(* The except clause around retrieval: an exception becomes an empty     *)
(* result.                                                                *)
Caught_Reraise(r) == r

Caught(r) == IF r.raised THEN [raised |-> FALSE, out |-> <<>>] ELSE r

(* A retrieval that keeps the top_k of the call before. *)
Retrieval_Sticky(query, use_hybrid, top_k, embed) ==
    LET k == IF ret.op = "generate_answer" THEN ret.args.top_k ELSE top_k
        r == IF use_hybrid THEN hybrid_search(query, k, embed)
             ELSE retrieve(query, k, embed)
    IN  [raised |-> FALSE, out |-> IF r.raised THEN <<>> ELSE r.out,
         raw |-> IF r.raised THEN "raised"
                 ELSE IF r.out = <<>> THEN "empty" ELSE "found"]

(* generate_answer, retrieval phase: the search and the except clause.   *)
(* raw is what the search did, out what generate_answer goes on with.     *)
Retrieval(query, use_hybrid, top_k, embed) ==
    LET r == IF use_hybrid THEN hybrid_search(query, top_k, embed)
             ELSE retrieve(query, top_k, embed)
        c == Caught(r)
    IN  [raised |-> c.raised, out |-> c.out,
         raw |-> IF r.raised THEN "raised"
                 ELSE IF r.out = <<>> THEN "empty" ELSE "found"]

(* generate_answer after retrieval.  calls lists what was invoked; found  *)
(* is the retrieval result the answer was built from.  An exception that  *)
(* nothing catches reaches the caller.                                    *)
generate_answer(query, r, use_llm, gen, elapsed) ==
    LET retrieved == r.out
    IN  IF r.raised
        THEN [raised |-> TRUE, retrieval |-> r.raw, found |-> <<>>,
              calls |-> {}, answer |-> <<>>, sources |-> <<>>,
              context |-> <<>>, generation_time_ms |-> 0]
        ELSE IF retrieved = <<>>
        THEN [raised |-> FALSE,
              retrieval |-> r.raw,
              found |-> <<>>,
              calls |-> {},
              answer |-> NOT_FOUND,
              sources |-> <<>>,
              context |-> <<>>,
              generation_time_ms |-> 0]
        ELSE [raised |-> FALSE,
              retrieval |-> r.raw,
              found |-> retrieved,
              calls |-> IF use_llm /\ gen = "ok" THEN {"generator"}
                        ELSE IF use_llm THEN {"generator", "fallback"}
                        ELSE {"fallback"},
              answer |-> IF use_llm
                         THEN _generate_with_anthropic(
                                  query, _build_context(retrieved), gen)
                         ELSE _generate_smart_fallback(query, retrieved),
              sources |-> _extract_sources(retrieved),
              context |-> _build_context(retrieved),
              generation_time_ms |-> elapsed]

(* ------------------------------------------------------------- actions *)
(* failures counts the operations on the store's state (construction,     *)
(* add_documents, clear) in which something failed, an exception raised   *)
(* or caught; the environment makes at most MaxFailures of them fail.     *)
(* Queries change nothing and may fail at any time.                       *)
(* the outcomes the environment may still choose from *)
Env(outcomes, ok) == IF failures < MaxFailures THEN outcomes ELSE {ok}

Fails(failed) ==
    /\ failed => failures < MaxFailures
    /\ failures' = IF failed THEN failures + 1 ELSE failures

Max(a, b) == IF a >= b THEN a ELSE b

(* the batches add_documents is called with: at most MaxBatch chunks, and *)
(* no more than keep ids and the index within MaxDocs entries             *)
Batches ==
    UNION {[1..n -> ChunkPool] :
             n \in 0..Min(MaxBatch, MaxDocs - Max(Len(ids), Len(index)))}

Init ==
    /\ ids = <<>>
    /\ documents = <<>>
    /\ metadatas = <<>>
    /\ index = <<>>
    /\ indexFile = Absent
    /\ pklFile = Absent
    /\ ret = NoRet
    /\ failures = 0
    /\ threads = NoThreads

(* MultiModalVectorStore(...): a new store object over the same files *)
Construct ==
    \E fault \in Env(LoadFaults, "none") :
      \E m \in {LoadIndex(fault)} :
            /\ index' = m.index
            /\ documents' = m.documents
            /\ metadatas' = m.metadatas
            /\ ids' = m.ids
            /\ UNCHANGED <<indexFile, pklFile>>
            /\ Fails(fault # "none")
            /\ ret' = [op |-> "construct", raised |-> FALSE,
                       args |-> [fault |-> fault],
                       out |-> <<>>]
            /\ UNCHANGED threads

AddDocuments ==
    \E chunks \in Batches :
      \E outcomes \in [1..Len(chunks) -> Env(EmbedOutcomes, "ok")] :
      \E acc \in {AddLoop([ids |-> ids, documents |-> documents,
                            metadatas |-> metadatas, embeddings |-> <<>>,
                            nbad |-> 0, raised |-> FALSE],
                           chunks, outcomes, 1, FileIds(pklFile))} :
        LET adds == ~acc.raised /\ acc.embeddings # <<>>
        IN  /\ \E addFail \in (IF adds THEN Env(BOOLEAN, FALSE) ELSE {FALSE}) :
                 LET addRaises == adds /\ IndexAddRaises(acc.embeddings, addFail)
                     saves == adds /\ ~addRaises
                 IN  \E fault \in (IF saves THEN Env(SaveFaults, "none") ELSE {"none"}) :
                       /\ Fails(acc.raised \/ addRaises \/ fault # "none")
                       /\ ids' = acc.ids
                       /\ documents' = acc.documents
                       /\ metadatas' = acc.metadatas
                       /\ index' = IF saves THEN index \o acc.embeddings ELSE index
                       /\ indexFile' = IF saves THEN SaveIndexFile(index', fault)
                                       ELSE indexFile
                       /\ pklFile' = IF saves
                                     THEN SavePklFile(documents', metadatas', ids', fault)
                                     ELSE pklFile
                       /\ ret' = [op |-> "add_documents",
                                  raised |-> acc.raised \/ addRaises,
                                  args |-> [n |-> Len(acc.embeddings),
                                            nbad |-> acc.nbad,
                                            loop |-> acc.raised,
                                            save |-> IF saves THEN fault
                                                     ELSE "nosave"],
                                  out |-> <<>>]
                       /\ UNCHANGED threads

(* A clear that forgets to replace the FAISS index. *)
Clear_KeepsIndex ==
    \E fault \in Env(SaveFaults, "none") :
        /\ Fails(fault # "none")
        /\ index' = index
        /\ documents' = <<>>
        /\ metadatas' = <<>>
        /\ ids' = <<>>
        /\ indexFile' = SaveIndexFile(index', fault)
        /\ pklFile' = SavePklFile(documents', metadatas', ids', fault)
        /\ ret' = [op |-> "clear", raised |-> FALSE,
                   args |-> [save |-> fault, had |-> Len(ids)],
                   out |-> <<>>]
        /\ UNCHANGED threads

Clear ==
    \E fault \in Env(SaveFaults, "none") :
        /\ Fails(fault # "none")
        /\ index' = <<>>
        /\ documents' = <<>>
        /\ metadatas' = <<>>
        /\ ids' = <<>>
        /\ indexFile' = SaveIndexFile(index', fault)
        /\ pklFile' = SavePklFile(documents', metadatas', ids', fault)
        /\ ret' = [op |-> "clear", raised |-> FALSE,
                   args |-> [save |-> fault, had |-> Len(ids)],
                   out |-> <<>>]
        /\ UNCHANGED threads

Retrieve ==
    \E query \in QueryPool, top_k \in 1..MaxTopK, outcome \in EmbedOutcomes :
      \E r \in {retrieve(query, top_k, outcome)} :
            /\ ret' = [op |-> "retrieve", raised |-> r.raised,
                       args |-> [query |-> query, top_k |-> top_k], out |-> r.out]
            /\ UNCHANGED <<ids, documents, metadatas, index, indexFile, pklFile,
                         failures, threads>>

HybridSearch ==
    \E query \in QueryPool, top_k \in 1..MaxTopK, outcome \in EmbedOutcomes :
      \E r \in {hybrid_search(query, top_k, outcome)} :
            /\ ret' = [op |-> "hybrid_search", raised |-> r.raised,
                       args |-> [query |-> query, top_k |-> top_k], out |-> r.out]
            /\ UNCHANGED <<ids, documents, metadatas, index, indexFile, pklFile,
                         failures, threads>>

GenerateAnswer ==
    \E query \in QueryPool, use_hybrid \in BOOLEAN, top_k \in 1..MaxTopK,
       embed \in EmbedOutcomes :
      \E r \in {Retrieval(query, use_hybrid, top_k, embed)} :
        LET found == ~r.raised /\ r.out # <<>>
        IN  \E use_llm \in BOOLEAN :
              \E gen \in (IF use_llm /\ found /\ r.raw = "found"
                          THEN GenOutcomes ELSE {"ok"}),
                 elapsed \in (IF found THEN {0, 1} ELSE {0}) :
              \E a \in {generate_answer(query, r, use_llm, gen, elapsed)} :
                    /\ ret' = [op |-> "generate_answer", raised |-> a.raised,
                               args |-> [query |-> query,
                                         use_hybrid |-> use_hybrid,
                                         top_k |-> top_k, use_llm |-> use_llm,
                                         gen |-> gen],
                               out |-> a]
                    /\ UNCHANGED <<ids, documents, metadatas, index,
                                   indexFile, pklFile, failures, threads>>

Next ==
    \/ Construct
    \/ AddDocuments
    \/ Clear
    \/ Retrieve
    \/ HybridSearch

Spec == Init /\ [][Next]_vars

(* The store and its persistence alone. *)
NextStore ==
    \/ Construct
    \/ AddDocuments
    \/ Clear

SpecStore == Init /\ [][NextStore]_vars

(* The question-answering engine over a store as one add_documents call  *)
(* that returned leaves it after construction in an empty directory.      *)
InitQA ==
    \E n \in 0..MaxDocs :
      \E chunks \in [1..n -> ChunkPool] :
      \E acc \in {AddLoop([ids |-> <<>>, documents |-> <<>>,
                            metadatas |-> <<>>, embeddings |-> <<>>,
                            nbad |-> 0, raised |-> FALSE],
                           chunks, [i \in 1..n |-> "ok"], 1, {})} :
            /\ ~acc.raised
            /\ ids = acc.ids
            /\ documents = acc.documents
            /\ metadatas = acc.metadatas
            /\ index = acc.embeddings
            /\ indexFile = IF index = <<>> THEN Absent ELSE File(index)
            /\ pklFile = IF index = <<>> THEN Absent
                         ELSE File(PklData(documents, metadatas, ids))
            /\ ret = NoRet
            /\ failures = 0
            /\ threads = NoThreads

NextQA == GenerateAnswer

SpecQA == InitQA /\ [][NextQA]_vars

(* ------------------------------------------------------------ get_stats *)
get_stats ==
    [total_vectors |-> Len(index), total_documents |-> Len(documents),
     dimension |-> dimension]

(* what a store constructed now, with no read failure, would hold *)
Loaded == LoadIndex("none")

Mem == [index |-> index, documents |-> documents, metadatas |-> metadatas,
        ids |-> ids]

DiskEqualsMem ==
    /\ indexFile = File(index)
    /\ pklFile = File(PklData(documents, metadatas, ids))

(* =============================== claims =============================== *)

(* C1: in every reachable state the three lists and the index have the    *)
(* same length, so total_vectors = total_documents.                       *)
C1_LengthsAgree ==
    /\ Len(ids) = Len(documents)
    /\ Len(documents) = Len(metadatas)
    /\ Len(metadatas) = Len(index)
    /\ get_stats.total_vectors = get_stats.total_documents

(* C2: an add_documents call whose loop completed and in which some chunk *)
(* got a vector of the wrong length does not raise, and inserts exactly   *)
(* the chunks whose vector has the store dimension.                       *)
C2_BadDimChunkAloneRejected ==
    [][(ret'.op = "add_documents" /\ ~ret'.args.loop /\ ret'.args.nbad > 0)
         => /\ ~ret'.raised
            /\ Len(ids') = Len(ids) + ret'.args.n - ret'.args.nbad
            /\ Len(documents') = Len(documents) + ret'.args.n - ret'.args.nbad
            /\ Len(metadatas') = Len(metadatas) + ret'.args.n - ret'.args.nbad
            /\ Len(index') = Len(index) + ret'.args.n - ret'.args.nbad]_vars

(* C3: a save that failed leaves the persisted snapshot as it was: a load *)
(* afterwards yields what a load before would have yielded.               *)
SaveFailed ==
    /\ ret.op \in {"add_documents", "clear"}
    /\ ret.args.save \in SaveFaults \ {"none"}

Consistent(idx, pkl) ==
    /\ Len(idx) = Len(pkl.documents)
    /\ Len(idx) = Len(pkl.metadatas)
    /\ Len(idx) = Len(pkl.ids)

HasSnapshot ==
    /\ indexFile.st = "ok" /\ pklFile.st = "ok"
    /\ Consistent(indexFile.data[1], pklFile.data[1])

C3_FailedSaveKeepsSnapshot ==
    [][(HasSnapshot /\ SaveFailed')
         => (Loaded' = Loaded /\ HasSnapshot')]_vars

(* C4: right after construction the store is empty or it is the persisted *)
(* snapshot, whose two artifacts agree in length.                         *)
C4_LoadedOrEmpty ==
    ret.op = "construct" =>
        \/ Mem = EmptyMem
        \/ (HasSnapshot /\ DiskEqualsMem)

(* C7: retrieve returns min(N, top_k) results in non-decreasing distance, *)
(* equal distances in insertion order; on an empty index it returns the   *)
(* empty list without raising.                                            *)
PosOf(id) == CHOOSE i \in 1..Len(ids) : ids[i] = id

C7_RetrieveCountAndOrder ==
    ret.op = "retrieve" =>
        /\ Len(index) = 0 => (~ret.raised /\ ret.out = <<>>)
        /\ ~ret.raised =>
            /\ Len(ret.out) = Min(Len(index), ret.args.top_k)
            /\ \A r \in 1..(Len(ret.out) - 1) :
                 \/ ret.out[r].distance < ret.out[r + 1].distance
                 \/ /\ ret.out[r].distance = ret.out[r + 1].distance
                    /\ PosOf(ret.out[r].id) < PosOf(ret.out[r + 1].id)

(* C8: constructing a store right after an add_documents call that        *)
(* returned, inserted entries and saved without failure yields the same   *)
(* ids, documents, metadatas and vectors, when the load does not fail.    *)
SavedAdd ==
    /\ ret.op = "add_documents" /\ ~ret.raised
    /\ ret.args.n > 0 /\ ret.args.save = "none"

C8_SaveThenLoadIdentity ==
    [][(SavedAdd /\ ret'.op = "construct" /\ ret'.args.fault = "none")
         => Mem' = Mem]_vars

C8_Witness ==
    /\ ret.op = "construct" /\ ret.args.fault = "none"
    /\ failures = 0
    /\ Len(documents) >= 2 /\ documents[1] # documents[2]
    /\ Len(index) = Len(documents) /\ Len(ids) = Len(documents)

(* C9: when add_documents has returned after inserting at least one entry *)
(* or clear has returned, a save was attempted, and if it did not fail    *)
(* the two files hold exactly the in-memory state.                        *)
C9_PersistFollowsMutation ==
    /\ (ret.op = "add_documents" /\ ~ret.raised /\ ret.args.n > 0)
         => /\ ret.args.save # "nosave"
            /\ ret.args.save = "none" => DiskEqualsMem
    /\ (ret.op = "clear" /\ ret.args.save = "none") => DiskEqualsMem

C9_Witness ==
    /\ ret.op = "add_documents" /\ ~ret.raised /\ ret.args.n > 0
    /\ ret.args.save = "none"
    /\ Len(documents) >= 2
    /\ DiskEqualsMem

(* C10 as stated: after clear the statistics are zero, the dimension is   *)
(* unchanged and a store constructed afterwards is empty.                 *)
C10_ClearPersistsEmpty ==
    ret.op = "clear" =>
        /\ get_stats.total_vectors = 0
        /\ get_stats.total_documents = 0
        /\ get_stats.dimension = 384
        /\ \A f \in LoadFaults : LoadIndex(f) = EmptyMem

(* C10 amended: after clear the statistics are zero and the dimension is  *)
(* unchanged; when the save of clear did not fail, the files hold the     *)
(* empty state and a store constructed afterwards is empty.               *)
C10_ClearEmptyWhenSaved ==
    ret.op = "clear" =>
        /\ get_stats.total_vectors = 0
        /\ get_stats.total_documents = 0
        /\ get_stats.dimension = 384
        /\ Mem = EmptyMem
        /\ ret.args.save = "none" =>
             /\ DiskEqualsMem
             /\ \A f \in LoadFaults : LoadIndex(f) = EmptyMem

C10_Witness ==
    /\ ret.op = "clear" /\ ret.args.save = "none" /\ ret.args.had >= 2
    /\ indexFile = File(<<>>)

(* C5: with a generator configured, a non-empty retrieval and a failing   *)
(* generator call, the answer is the extractive fallback computed from    *)
(* the retrieved results, and nothing is raised.                          *)
C5_GeneratorFailureFallsBack ==
    (/\ ret.op = "generate_answer"
     /\ ret.args.use_llm /\ ret.args.gen # "ok"
     /\ ret.out.retrieval = "found")
        => /\ ~ret.raised
           /\ ret.out.answer =
                _generate_smart_fallback(ret.args.query, ret.out.found)

(* C6: when retrieval raises or returns nothing, generate_answer returns  *)
(* the fixed not-found answer with no sources, empty context and zero     *)
(* generation time, raises nothing and invokes neither the generator nor  *)
(* the extractive fallback.                                               *)
C6_RetrievalFailureIsNotFound ==
    (ret.op = "generate_answer" /\ ret.out.retrieval \in {"raised", "empty"})
        => /\ ~ret.raised
           /\ ret.out.answer = NOT_FOUND
           /\ ret.out.sources = <<>>
           /\ ret.out.context = <<>>
           /\ ret.out.generation_time_ms = 0
           /\ ret.out.calls = {}

C6_Witness ==
    /\ ret.op = "generate_answer" /\ ret.out.retrieval = "raised"
    /\ Len(index) >= 2 /\ Len(documents) = Len(index)
    /\ ret.out.answer = NOT_FOUND

(* Queries alone, over a store as one add_documents call that returned    *)
(* leaves it after construction in an empty directory.                    *)
InitQuery ==
    \E n \in 0..MaxStored :
      \E chunks \in [1..n -> ChunkPool] :
      \E acc \in {AddLoop([ids |-> <<>>, documents |-> <<>>,
                            metadatas |-> <<>>, embeddings |-> <<>>,
                            nbad |-> 0, raised |-> FALSE],
                           chunks, [i \in 1..n |-> "ok"], 1, {})} :
            /\ ~acc.raised
            /\ ids = acc.ids
            /\ documents = acc.documents
            /\ metadatas = acc.metadatas
            /\ index = acc.embeddings
            /\ indexFile = IF index = <<>> THEN Absent ELSE File(index)
            /\ pklFile = IF index = <<>> THEN Absent
                         ELSE File(PklData(documents, metadatas, ids))
            /\ ret = NoRet
            /\ failures = 0
            /\ threads = NoThreads

NextQuery ==
    \/ Retrieve
    \/ HybridSearch

SpecQuery == InitQuery /\ [][NextQuery]_vars

(* ------------------------------------------------------ SemanticChunker *)
(* chunking/semantic_chunker.py, chunk_text.  Texts are sequences over     *)
(* the characters "w", " " and "."; a chunk record carries, next to the    *)
(* keys of the dictionary, the list of sentences its content was joined    *)
(* from.                                                                   *)
DefaultChunkSize == 512

IsPunct(c) == c \in {".", "!", "?"}

(* re.split(r'(?<=[.!?])\s+', text): the text is cut at every maximal run  *)
(* of whitespace that follows one of . ! ? ; the pieces keep everything    *)
(* else, and a text without such a run (the empty text too) is one piece.  *)
RECURSIVE SplitSentences(_, _)
SplitSentences(text, from) ==
    LET starts == {i \in from..Len(text) :
                     i >= 2 /\ IsPunct(text[i - 1]) /\ IsSpace(text[i])}
    IN  IF starts = {}
        THEN <<SubSeq(text, from, Len(text))>>
        ELSE LET i == CHOOSE x \in starts : \A y \in starts : x <= y
                 j == CHOOSE x \in i..Len(text) :
                        /\ \A k \in i..x : IsSpace(text[k])
                        /\ (x = Len(text) \/ ~IsSpace(text[x + 1]))
             IN  <<SubSeq(text, from, i - 1)>> \o SplitSentences(text, j + 1)

(* A length counted in characters instead of words. *)
WordCount_Chars(s) == Len(s)

(* len(sentence.split()) *)
WordCount(s) ==
    Cardinality({i \in 1..Len(s) :
                   ~IsSpace(s[i]) /\ (i = 1 \/ IsSpace(s[i - 1]))})

(* A seed whose carried words are not counted. *)
SumWords_Zero(ss) == 0

RECURSIVE SumWords(_)
SumWords(ss) == IF ss = <<>> THEN 0 ELSE WordCount(Head(ss)) + SumWords(Tail(ss))

TextChunk(current_chunk, current_length, page_num) ==
    [type |-> "text", content |-> Join(current_chunk, <<" ">>),
     page |-> page_num, word_count |-> current_length,
     sentences |-> current_chunk]

(* A carry-over of the whole emitted buffer. *)
OverlapSentences_All(current_chunk) == current_chunk

(* current_chunk[-2:] if len(current_chunk) >= 2 else current_chunk *)
OverlapSentences(current_chunk) ==
    IF Len(current_chunk) >= 2
    THEN SubSeq(current_chunk, Len(current_chunk) - 1, Len(current_chunk))
    ELSE current_chunk

RECURSIVE ChunkLoop(_, _, _, _, _, _, _)
ChunkLoop(sentences, i, chunks, current_chunk, current_length, chunk_size, page_num) ==
    IF i > Len(sentences)
    THEN IF current_chunk # <<>>
         THEN Append(chunks, TextChunk(current_chunk, current_length, page_num))
         ELSE chunks
    ELSE LET sentence == sentences[i]
             sentence_length == WordCount(sentence)
         IN  IF current_length + sentence_length > chunk_size /\ current_chunk # <<>>
             THEN LET next == OverlapSentences(current_chunk) \o <<sentence>>
                  IN  ChunkLoop(sentences, i + 1,
                                Append(chunks, TextChunk(current_chunk,
                                                         current_length, page_num)),
                                next, SumWords(next), chunk_size, page_num)
             ELSE ChunkLoop(sentences, i + 1, chunks,
                            Append(current_chunk, sentence),
                            current_length + sentence_length,
                            chunk_size, page_num)

chunk_text(text, chunk_size, page_num) ==
    ChunkLoop(SplitSentences(text, 1), 1, <<>>, <<>>, 0, chunk_size, page_num)

(* the inputs: every text of at most MaxText characters, and the text of  *)
(* 20 sentences of 50 words each                                          *)
Alphabet == {"w", " ", "."}

ScenarioText ==
    [i \in 1..(20 * 101 - 1) |->
        LET p == ((i - 1) % 101) + 1
        IN  IF p = 101 THEN " "
            ELSE IF p = 100 THEN "."
            ELSE IF p % 2 = 1 THEN "w" ELSE " "]

Texts == UNION {[1..n -> Alphabet] : n \in 0..MaxText} \cup {ScenarioText}

ChunkSizes == (1..MaxChunkSize) \cup {DefaultChunkSize}

Pages == {1, 2}

(* a pending call chunk_text(text, page_num) of a chunker built with     *)
(* chunk_size                                                             *)
InitChunk ==
    /\ ids = <<>>
    /\ documents = <<>>
    /\ metadatas = <<>>
    /\ index = <<>>
    /\ indexFile = Absent
    /\ pklFile = Absent
    /\ failures = 0
    /\ threads = NoThreads
    /\ \E text \in Texts, chunk_size \in ChunkSizes, page_num \in Pages :
         ret = [op |-> "call", raised |-> FALSE,
                args |-> [text |-> text, chunk_size |-> chunk_size,
                          page_num |-> page_num],
                out |-> <<>>]

ChunkText ==
    /\ ret.op = "call"
    /\ ret' = [ret EXCEPT
                 !.op = "chunk_text",
                 !.out = chunk_text(ret.args.text, ret.args.chunk_size,
                                    ret.args.page_num)]
    /\ UNCHANGED <<ids, documents, metadatas, index, indexFile, pklFile,
                   failures, threads>>

NextChunk == ChunkText

SpecChunk == InitChunk /\ [][NextChunk]_vars

(* ------------------------------------------- the extractive fallback *)
(* _generate_smart_fallback on its own: the contents are up to MaxParts   *)
(* fragments " a" or "b " joined by ".", and one content of more than     *)
(* MaxPreview characters without a token of any query; the retrieved      *)
(* list holds the document in question and a second one.                  *)
Parts == {<<" ", "a">>, <<"b", " ">>}

LongContent ==
    [i \in 1..(MaxPreview + 20) |->
        IF i \in {1, MaxPreview, MaxPreview + 2} THEN " " ELSE "x"]

Contents ==
    {Join(ps, <<".">>) : ps \in UNION {[1..n -> Parts] : n \in 0..MaxParts}}
        \cup {LongContent}

Doc(content, page, distance) ==
    [id |-> 0, content |-> content,
     metadata |-> [type |-> "text", page |-> page, source |-> "unknown"],
     distance |-> distance]

InitFallback ==
    /\ ids = <<>>
    /\ documents = <<>>
    /\ metadatas = <<>>
    /\ index = <<>>
    /\ indexFile = Absent
    /\ pklFile = Absent
    /\ failures = 0
    /\ threads = NoThreads
    /\ \E query \in QueryPool, content \in Contents, page \in Pages :
         ret = [op |-> "call", raised |-> FALSE,
                args |-> [query |-> query,
                          retrieved_docs |-> <<Doc(content, page, 0),
                                               Doc(TextAB, 3, 1)>>],
                out |-> <<>>]

SmartFallback ==
    /\ ret.op = "call"
    /\ ret' = [ret EXCEPT
                 !.op = "_generate_smart_fallback",
                 !.out = _generate_smart_fallback(ret.args.query,
                                                  ret.args.retrieved_docs)]
    /\ UNCHANGED <<ids, documents, metadatas, index, indexFile, pklFile,
                   failures, threads>>

NextFallback == SmartFallback

SpecFallback == InitFallback /\ [][NextFallback]_vars

(* ---------------------------------------------------- concurrent calls *)
(* One thread inside add_documents and one inside retrieve/hybrid_search   *)
(* on the same store object.  The class holds no lock; a step is one       *)
(* statement that reads or writes the shared lists or the index.           *)
Store == <<ids, documents, metadatas, index, indexFile, pklFile>>

Ins == threads.ins

Qry == threads.qry

InsertReturns(raised, n) ==
    /\ threads' = [threads EXCEPT !.ins = [pc |-> "idle"]]
    /\ ret' = [op |-> "add_documents", raised |-> raised,
               args |-> [n |-> n, nbad |-> 0, loop |-> raised,
                         save |-> IF raised \/ n = 0 THEN "nosave" ELSE "none"],
               out |-> <<>>]

InsertCall ==
    /\ Ins.pc = "idle"
    /\ \E chunks \in Batches :
         threads' = [threads EXCEPT !.ins =
                        [pc |-> "loop", chunks |-> chunks, i |-> 1,
                         embeddings |-> <<>>]]
    /\ UNCHANGED <<Store, ret, failures>>

(* loop head, embed_text, embeddings.append and self.ids.append *)
InsertLoop ==
    /\ Ins.pc = "loop"
    /\ IF Ins.i > Len(Ins.chunks)
       THEN /\ IF Ins.embeddings = <<>>
               THEN InsertReturns(FALSE, 0)
               ELSE /\ threads' = [threads EXCEPT !.ins.pc = "add"]
                    /\ UNCHANGED ret
            /\ UNCHANGED ids
       ELSE LET chunk == Ins.chunks[Ins.i]
                text == IF chunk.type = "image"
                        THEN (IF "ocr_text" \in chunk.keys
                              THEN chunk.ocr_text ELSE NoText)
                        ELSE chunk.content
            IN  IF chunk.type \notin {"text", "table", "image"}
                THEN /\ threads' = [threads EXCEPT !.ins.i = @ + 1]
                     /\ UNCHANGED <<ids, ret>>
                ELSE /\ threads' = [threads EXCEPT
                            !.ins.pc = "docs",
                            !.ins.embeddings =
                                Append(@, embed_text(text, "ok").vec)]
                     /\ ids' = Append(ids, uuid4(Range(ids) \cup FileIds(pklFile)))
                     /\ UNCHANGED ret
    /\ UNCHANGED <<documents, metadatas, index, indexFile, pklFile, failures>>

(* self.documents.append(chunk['content']) *)
InsertDocs ==
    /\ Ins.pc = "docs"
    /\ IF "content" \notin Ins.chunks[Ins.i].keys
       THEN /\ InsertReturns(TRUE, Len(Ins.embeddings))
            /\ UNCHANGED documents
       ELSE /\ documents' = Append(documents, Ins.chunks[Ins.i].content)
            /\ threads' = [threads EXCEPT !.ins.pc = "metas"]
            /\ UNCHANGED ret
    /\ UNCHANGED <<ids, metadatas, index, indexFile, pklFile, failures>>

(* self.metadatas.append({...}) *)
InsertMetas ==
    /\ Ins.pc = "metas"
    /\ metadatas' = Append(metadatas, Metadata(Ins.chunks[Ins.i]))
    /\ threads' = [threads EXCEPT !.ins.pc = "loop", !.ins.i = @ + 1]
    /\ UNCHANGED <<ids, documents, index, indexFile, pklFile, ret, failures>>

(* np.array(embeddings); self.index.add is entered *)
InsertArray ==
    /\ Ins.pc = "add"
    /\ threads' = [threads EXCEPT !.ins.pc = "adding"]
    /\ UNCHANGED <<Store, ret, failures>>

(* self.index.add returns *)
InsertAdd ==
    /\ Ins.pc = "adding"
    /\ index' = index \o Ins.embeddings
    /\ threads' = [threads EXCEPT !.ins.pc = "save"]
    /\ UNCHANGED <<ids, documents, metadatas, indexFile, pklFile, ret, failures>>

(* self._save_index() *)
InsertSave ==
    /\ Ins.pc = "save"
    /\ indexFile' = SaveIndexFile(index, "none")
    /\ pklFile' = SavePklFile(documents, metadatas, ids, "none")
    /\ InsertReturns(FALSE, Len(Ins.embeddings))
    /\ UNCHANGED <<ids, documents, metadatas, index, failures>>

QueryReturns(q, raised, out) ==
    /\ threads' = [threads EXCEPT !.qry = [pc |-> "idle"]]
    /\ ret' = [op |-> IF q.hybrid THEN "hybrid_search" ELSE "retrieve",
               raised |-> raised,
               args |-> [query |-> q.query, top_k |-> q.top_k],
               out |-> out]

(* if self.index.ntotal == 0: return [] *)
QueryCall ==
    /\ Qry.pc = "idle"
    /\ \E query \in QueryPool, top_k \in 1..MaxTopK, hybrid \in BOOLEAN :
         LET q == [pc |-> "search", query |-> query, top_k |-> top_k,
                   hybrid |-> hybrid]
         IN  IF Len(index) = 0
             THEN QueryReturns(q, FALSE, <<>>)
             ELSE /\ threads' = [threads EXCEPT !.qry = q]
                  /\ UNCHANGED ret
    /\ UNCHANGED <<Store, failures>>

(* embed_text(query) and self.index.search(query_array, min(top_k,        *)
(* ntotal)).  faiss runs add and search without the interpreter lock: a   *)
(* search that overlaps index.add is a data race, and may read the index  *)
(* before the add, after it, or fail.                                     *)
QuerySearch ==
    /\ Qry.pc = "search"
    /\ \E idx \in (IF Ins.pc = "adding"
                   THEN {index, index \o Ins.embeddings} ELSE {index}),
          crash \in (IF Ins.pc = "adding" THEN BOOLEAN ELSE {FALSE}) :
         LET e == embed_text(Qry.query, "ok").vec
             k == Min(IF Qry.hybrid THEN Qry.top_k * 2 ELSE Qry.top_k, Len(idx))
             found == Search(idx, e, k)
         IN  IF crash
             THEN QueryReturns(Qry, TRUE, <<>>)
             ELSE /\ threads' = [threads EXCEPT !.qry =
                        [pc |-> "format", query |-> Qry.query,
                         top_k |-> Qry.top_k, hybrid |-> Qry.hybrid,
                         hits |-> [r \in 1..k |->
                                     [i |-> found[r],
                                      distance |-> Dist(e, idx[found[r]])]]]]
                  /\ UNCHANGED ret
    /\ UNCHANGED <<Store, failures>>

RECURSIVE FormatHits(_, _, _)
FormatHits(hits, r, acc) ==
    IF acc.raised \/ r > Len(hits)
    THEN acc
    ELSE LET i == hits[r].i
         IN  IF i > Len(documents)
             THEN FormatHits(hits, r + 1, acc)
             ELSE IF i > Len(ids) \/ i > Len(metadatas)
             THEN [acc EXCEPT !.raised = TRUE]
             ELSE FormatHits(hits, r + 1,
                    [acc EXCEPT !.out = Append(@,
                        [id |-> ids[i], content |-> documents[i],
                         metadata |-> metadatas[i],
                         distance |-> hits[r].distance])])

(* the formatting loop of retrieve and, for hybrid_search, the re-ranking *)
QueryFormat ==
    /\ Qry.pc = "format"
    /\ \E r \in {FormatHits(Qry.hits, 1, [raised |-> FALSE, out |-> <<>>])} :
         QueryReturns(Qry, r.raised,
            IF Qry.hybrid /\ ~r.raised /\ r.out # <<>>
            THEN Take(SortByScore([i \in 1..Len(r.out) |->
                                      Scored(Qry.query, r.out[i])]), Qry.top_k)
            ELSE r.out)
    /\ UNCHANGED <<Store, failures>>

NextConc ==
    \/ InsertCall
    \/ InsertLoop
    \/ InsertDocs
    \/ InsertMetas
    \/ InsertArray
    \/ InsertAdd
    \/ InsertSave
    \/ QueryCall
    \/ QuerySearch
    \/ QueryFormat

SpecConc == InitQA /\ [][NextConc]_vars

(* C12: a step of a retrieve or hybrid_search call never runs in a state  *)
(* of the store in which ids, documents, metadatas and the index have     *)
(* different lengths while an add_documents call is in progress.          *)
C12_QuerySeesWholeBatches ==
    [][(threads'.qry # Qry /\ Ins.pc # "idle") =>
          /\ Len(ids) = Len(documents)
          /\ Len(documents) = Len(metadatas)
          /\ Len(metadatas) = Len(index)]_vars

(* C11: add_documents, returning or raising, keeps the previous ids,      *)
(* documents, metadatas and vectors as a prefix of the new ones, position *)
(* by position; of the operations on a store object only clear() removes  *)
(* entries.                                                               *)
IsPrefix(s, t) == Len(s) <= Len(t) /\ SubSeq(t, 1, Len(s)) = s

C11_AppendOnly ==
    [][ret'.op \notin {"clear", "construct"} =>
         /\ IsPrefix(ids, ids')
         /\ IsPrefix(documents, documents')
         /\ IsPrefix(metadatas, metadatas')
         /\ IsPrefix(index, index')]_vars

C11_Witness ==
    /\ ret.op = "add_documents" /\ ~ret.raised
    /\ ret.args.n = 1 /\ Len(documents) = 2 /\ Len(index) = 2
    /\ documents[1] # documents[2]

(* C13: hybrid_search(query, top_k) returns at most top_k results, each   *)
(* one of the results of retrieve(query, 2 * top_k), each with            *)
(* hybrid_score = 0.7/(1+distance) + 0.3 * overlap in [0,1], in           *)
(* non-increasing hybrid_score, equal scores in the order of the vector   *)
(* search.                                                                *)
Stripped(r) ==
    [id |-> r.id, content |-> r.content, metadata |-> r.metadata,
     distance |-> r.distance]

Candidates == retrieve(ret.args.query, 2 * ret.args.top_k, "ok").out

Rank(r) == CHOOSE i \in 1..Len(Candidates) : Candidates[i] = Stripped(r)

Overlap(query, content) ==
    Cardinality({t \in Terms(query) : t \in Terms(content)})

C13_HybridRanking ==
    (ret.op = "hybrid_search" /\ ~ret.raised) =>
        /\ Len(ret.out) <= ret.args.top_k
        /\ Len(ret.out) = Min(ret.args.top_k, Len(Candidates))
        /\ \A r \in 1..Len(ret.out) :
             LET x == ret.out[r]
                 n == Cardinality(Terms(ret.args.query))
                 o == Overlap(ret.args.query, x.content)
             IN  /\ Stripped(x) \in Range(Candidates)
                 /\ x.hybrid_score.den > 0
                 /\ 0 <= x.hybrid_score.num
                 /\ x.hybrid_score.num <= x.hybrid_score.den
                 (* 10 * score = 7/(1+d) + 3*o/n *)
                 /\ 10 * x.hybrid_score.num * (1 + x.distance) * n
                      = x.hybrid_score.den * (7 * n + 3 * o * (1 + x.distance))
        /\ \A r \in 1..(Len(ret.out) - 1) :
             \/ Greater(ret.out[r].hybrid_score, ret.out[r + 1].hybrid_score)
             \/ /\ Same(ret.out[r].hybrid_score, ret.out[r + 1].hybrid_score)
                /\ Rank(ret.out[r]) < Rank(ret.out[r + 1])

C13_Witness ==
    /\ ret.op = "hybrid_search" /\ ~ret.raised
    /\ Len(ret.out) = 2 /\ Len(Candidates) = 3
    /\ Rank(ret.out[1]) > Rank(ret.out[2])

(* C14: for a query that shares no lowercase token with any indexed       *)
(* content, hybrid_search(query, top_k) returns the entries of            *)
(* retrieve(query, top_k) in the same order, each with keyword overlap 0, *)
(* that is hybrid_score = 0.7/(1+distance).                               *)
NoSharedToken(query) ==
    \A i \in 1..Len(documents) : Terms(query) \cap Terms(documents[i]) = {}

C14_NoOverlapIsVectorOrder ==
    (ret.op = "hybrid_search" /\ ~ret.raised /\ NoSharedToken(ret.args.query)) =>
        /\ [r \in 1..Len(ret.out) |-> Stripped(ret.out[r])]
             = retrieve(ret.args.query, ret.args.top_k, "ok").out
        /\ \A r \in 1..Len(ret.out) :
             /\ 10 * ret.out[r].hybrid_score.num * (1 + ret.out[r].distance)
                  = 7 * ret.out[r].hybrid_score.den

C14_Witness ==
    /\ ret.op = "hybrid_search" /\ ~ret.raised
    /\ NoSharedToken(ret.args.query)
    /\ Len(ret.out) = 2 /\ Len(index) = 3
    /\ ret.out[1].distance < ret.out[2].distance

(* C15: chunk_text on the empty text returns no chunk, for every          *)
(* chunk_size and page number.                                            *)
C15_EmptyTextNoChunks ==
    (ret.op = "chunk_text" /\ ret.args.text = <<>>) =>
        (~ret.raised /\ ret.out = <<>>)

(* C16: with chunk_size = 512 and 20 sentences of 50 words each,          *)
(* chunk_text returns exactly 2 chunks, and the second chunk begins with  *)
(* the last 2 sentences of the first.                                     *)
Scenario ==
    /\ ret.op = "chunk_text"
    /\ ret.args.text = ScenarioText
    /\ ret.args.chunk_size = DefaultChunkSize

LastTwo(ss) == SubSeq(ss, Len(ss) - Min(2, Len(ss)) + 1, Len(ss))

BeginsWithCarry(k) ==
    LET carry == LastTwo(ret.out[k - 1].sentences)
    IN  /\ IsPrefix(carry, ret.out[k].sentences)
        /\ IsPrefix(Join(carry, <<" ">>) \o <<" ">>, ret.out[k].content)

C16_ScenarioTwoChunks ==
    Scenario => (Len(ret.out) = 2 /\ BeginsWithCarry(2))

(* C16 as amended: the scenario yields exactly 3 chunks (sentences 1-10,  *)
(* 9-18 and 17-20), the second and the third each beginning with the     *)
(* last 2 sentences of the chunk before.                                  *)
C16_ScenarioThreeChunks ==
    Scenario =>
        /\ Len(ret.out) = 3
        /\ BeginsWithCarry(2)
        /\ BeginsWithCarry(3)
        /\ [k \in 1..3 |-> Len(ret.out[k].sentences)] = <<10, 10, 4>>
        /\ [k \in 1..3 |-> ret.out[k].word_count] = <<500, 500, 200>>

C16_Witness ==
    /\ Scenario
    /\ Len(ret.out) >= 2
    /\ Len(SplitSentences(ret.args.text, 1)) = 20
    /\ \A k \in 1..20 : WordCount(SplitSentences(ret.args.text, 1)[k]) = 50

(* C17: every chunk has word_count <= chunk_size plus the words of its    *)
(* carried-over leading sentences, except a chunk that is one sentence    *)
(* which alone exceeds chunk_size.                                        *)
Carried(k) ==
    IF k = 1 THEN <<>> ELSE LastTwo(ret.out[k - 1].sentences)

CarriedWords(k) ==
    LET c == Carried(k)
    IN  IF c = <<>> THEN 0
        ELSE IF Len(c) = 1 THEN WordCount(c[1])
        ELSE WordCount(c[1]) + WordCount(c[2])

WithinBound(k) ==
    ret.out[k].word_count <= ret.args.chunk_size + CarriedWords(k)

C17_WordCountBound ==
    ret.op = "chunk_text" =>
        \A k \in 1..Len(ret.out) :
            \/ WithinBound(k)
            \/ /\ Len(ret.out[k].sentences) = 1
               /\ WordCount(ret.out[k].sentences[1]) > ret.args.chunk_size

(* C17 as amended: the exception is every chunk that contains a sentence  *)
(* which alone exceeds chunk_size (carried over, triggering or first).    *)
C17_WordCountBoundUnlessLongSentence ==
    ret.op = "chunk_text" =>
        \A k \in 1..Len(ret.out) :
            \/ WithinBound(k)
            \/ \E i \in 1..Len(ret.out[k].sentences) :
                 WordCount(ret.out[k].sentences[i]) > ret.args.chunk_size

C17_Witness ==
    /\ ret.op = "chunk_text"
    /\ Len(ret.out) >= 3
    /\ \E k \in 2..Len(ret.out) :
         /\ ret.out[k].word_count > ret.args.chunk_size
         /\ ret.out[k].word_count = ret.args.chunk_size + CarriedWords(k)
         /\ \A i \in 1..Len(ret.out[k].sentences) :
              WordCount(ret.out[k].sentences[i]) <= ret.args.chunk_size

(* C20: each chunk after the first is the last min(2, n) sentences of the *)
(* chunk before followed by at least one new sentence; the new sentences  *)
(* of all chunks in order are the sentences of the input; word_count is   *)
(* the number of whitespace-delimited words of the content.               *)
NewSentences(k) ==
    SubSeq(ret.out[k].sentences, Len(Carried(k)) + 1, Len(ret.out[k].sentences))

RECURSIVE AllNew(_)
AllNew(k) == IF k = 0 THEN <<>> ELSE AllNew(k - 1) \o NewSentences(k)

C20_NoSentenceLost ==
    ret.op = "chunk_text" =>
        /\ \A k \in 2..Len(ret.out) :
             /\ IsPrefix(Carried(k), ret.out[k].sentences)
             /\ Len(ret.out[k].sentences) >= Len(Carried(k)) + 1
        /\ AllNew(Len(ret.out)) = SplitSentences(ret.args.text, 1)
        /\ \A k \in 1..Len(ret.out) :
             /\ ret.out[k].content = Join(ret.out[k].sentences, <<" ">>)
             /\ ret.out[k].word_count = WordCount(ret.out[k].content)

C20_Witness ==
    /\ ret.op = "chunk_text"
    /\ Len(ret.out) >= 3
    /\ Len(Carried(2)) = 1 /\ Len(Carried(3)) = 2
    /\ Len(NewSentences(3)) >= 1
    /\ ret.out[3].word_count >= 3

(* C18: a generate_answer call leaves ids, documents, metadatas, the      *)
(* index and the files unchanged, and with no generator configured a call *)
(* returns the answer, sources and context that the call before it        *)
(* returned for the same query, use_hybrid and top_k (both retrievals     *)
(* having run without an embedder failure).                               *)
SameQuestion(a, b) ==
    /\ a.query = b.query
    /\ a.use_hybrid = b.use_hybrid
    /\ a.top_k = b.top_k
    /\ ~a.use_llm /\ ~b.use_llm

TopDoc == ret.args.retrieved_docs[1]

Examined == Take(SplitOn(TopDoc.content, ".", 1, <<>>), 10)

Matches(fragment) == Terms(fragment) \cap Terms(ret.args.query) # {}

Kept == SelectSeq(Examined, Matches)

TopCitation == Citation(TopDoc.metadata.page)

C19_FallbackAnswer ==
    ret.op = "_generate_smart_fallback" =>
        ret.out = IF Kept # <<>>
                  THEN Join(Take(Kept, 3), <<".", " ">>) \o <<".">> \o TopCitation
                  ELSE Take(TopDoc.content, 500) \o TopCitation

(* C19 as amended: the kept fragments are stripped of surrounding         *)
(* whitespace before they are joined, and when none is kept the answer is *)
(* the first 500 characters of the content, stripped, then "..." and the  *)
(* citation.                                                              *)
C19_FallbackAnswerStripped ==
    ret.op = "_generate_smart_fallback" =>
        ret.out = IF Kept # <<>>
                  THEN Join([k \in 1..Min(3, Len(Kept)) |-> Strip(Kept[k])],
                            <<".", " ">>) \o <<".">> \o TopCitation
                  ELSE Strip(Take(TopDoc.content, 500))
                         \o <<".", ".", ".">> \o TopCitation

C19_Witness ==
    /\ ret.op = "_generate_smart_fallback"
    /\ Len(SplitOn(TopDoc.content, ".", 1, <<>>)) > 10
    /\ Len(Kept) > 3
    /\ Matches(SplitOn(TopDoc.content, ".", 1, <<>>)[11])
    /\ ~Matches(Examined[1])

(* the case without a matching fragment, on a content of more than 500   *)
(* characters                                                             *)
C19_WitnessPreview ==
    /\ ret.op = "_generate_smart_fallback"
    /\ Kept = <<>>
    /\ Len(TopDoc.content) > 500

====
